---- MODULE Spec2Model ----
(***************************************************************************)
(* A model of the Schmidt-Samoa style cryptosystem: the number-theory      *)
(* engine (numtheory.c), key generation and the block transform (ss.c).    *)
(*                                                                         *)
(* mpz_t values are arbitrary-precision integers.  They are represented as *)
(* sign and magnitude, the magnitude a little-endian sequence of limbs in  *)
(* base 2^15 without leading zero limbs, so that no operation of the model *)
(* is cut short by the width of a machine integer.                         *)
(***************************************************************************)
EXTENDS Integers, Sequences, FiniteSets, TLC

(***************************************************************************)
(* Magnitudes (natural numbers as limb sequences).                         *)
(***************************************************************************)
LimbBits == 15

Limb == 2^LimbBits

RECURSIVE NNorm(_)
NNorm(s) ==
    IF s = <<>> THEN s
    ELSE IF s[Len(s)] = 0 THEN NNorm(SubSeq(s, 1, Len(s) - 1)) ELSE s

RECURSIVE NFromNat(_)
NFromNat(k) == IF k = 0 THEN <<>> ELSE <<k % Limb>> \o NFromNat(k \div Limb)

RECURSIVE NToNatAt(_, _)
NToNatAt(a, i) == IF i > Len(a) THEN 0 ELSE a[i] + Limb * NToNatAt(a, i + 1)

NToNat(a) == NToNatAt(a, 1)

NDigit(a, i) == IF i <= Len(a) THEN a[i] ELSE 0

RECURSIVE NCmpAt(_, _, _)
NCmpAt(a, b, i) ==
    IF i = 0 THEN 0
    ELSE IF a[i] < b[i] THEN -1
    ELSE IF a[i] > b[i] THEN 1
    ELSE NCmpAt(a, b, i - 1)

NCmp(a, b) ==
    IF Len(a) < Len(b) THEN -1
    ELSE IF Len(a) > Len(b) THEN 1
    ELSE NCmpAt(a, b, Len(a))

RECURSIVE NAddAt(_, _, _, _)
NAddAt(a, b, i, c) ==
    IF i > Len(a) /\ i > Len(b)
    THEN (IF c = 0 THEN <<>> ELSE <<c>>)
    ELSE LET x == NDigit(a, i) + NDigit(b, i) + c
         IN  <<x % Limb>> \o NAddAt(a, b, i + 1, x \div Limb)

NAdd(a, b) == NAddAt(a, b, 1, 0)

\* a - b for a >= b
RECURSIVE NSubAt(_, _, _, _)
NSubAt(a, b, i, c) ==
    IF i > Len(a) THEN <<>>
    ELSE LET x == a[i] - NDigit(b, i) - c
         IN  <<(x + Limb) % Limb>> \o NSubAt(a, b, i + 1, IF x < 0 THEN 1 ELSE 0)

NSub(a, b) == NNorm(NSubAt(a, b, 1, 0))

RECURSIVE NMulSmallAt(_, _, _, _)
NMulSmallAt(a, k, i, c) ==
    IF i > Len(a)
    THEN (IF c = 0 THEN <<>> ELSE <<c>>)
    ELSE LET x == a[i] * k + c
         IN  <<x % Limb>> \o NMulSmallAt(a, k, i + 1, x \div Limb)

NMulSmall(a, k) == IF k = 0 THEN <<>> ELSE NMulSmallAt(a, k, 1, 0)

NShift(a, k) == IF a = <<>> THEN a ELSE [i \in 1..k |-> 0] \o a

RECURSIVE NMulAt(_, _, _)
NMulAt(a, b, j) ==
    IF j > Len(b) THEN <<>>
    ELSE NAdd(NShift(NMulSmall(a, b[j]), j - 1), NMulAt(a, b, j + 1))

NMul(a, b) == NMulAt(a, b, 1)

\* bit i (from 0) of a, and the number of bits of a (0 for zero)
NBit(a, i) == (a[(i \div LimbBits) + 1] \div (2^(i % LimbBits))) % 2

RECURSIVE BitLen(_)
BitLen(k) == IF k = 0 THEN 0 ELSE 1 + BitLen(k \div 2)

NBitLen(a) == IF a = <<>> THEN 0 ELSE LimbBits * (Len(a) - 1) + BitLen(a[Len(a)])

\* a divided by a small k (0 < k <= Limb), from the top limb down
RECURSIVE NDivSmallAt(_, _, _, _, _)
NDivSmallAt(a, k, i, r, q) ==
    IF i = 0 THEN NNorm(q)
    ELSE NDivSmallAt(a, k, i - 1, (r * Limb + a[i]) % k,
                     <<(r * Limb + a[i]) \div k>> \o q)

NDivSmall(a, k) == NDivSmallAt(a, k, Len(a), 0, <<>>)

\* the largest d with d * b <= cur, for cur < Limb * b: d counted down from
\* an estimate that is never below it
RECURSIVE NQuotFit(_, _, _)
NQuotFit(cur, b, d) ==
    IF NCmp(NMulSmall(b, d), cur) <= 0 THEN d ELSE NQuotFit(cur, b, d - 1)

\* the estimate: the leading limbs of cur divided by the leading limb of b
NQuotDigit(cur, b) ==
    IF NCmp(cur, b) < 0 THEN 0
    ELSE LET top == IF Len(cur) > Len(b)
                    THEN cur[Len(b) + 1] * Limb + cur[Len(b)]
                    ELSE cur[Len(b)]
             fit(d) == NQuotFit(cur, b, IF d < Limb THEN d ELSE Limb - 1)
         IN  fit(top \div b[Len(b)])

\* long division of the limbs a[1..i] below the running remainder r, the
\* quotient limbs found so far in q: <<quotient, remainder>>
RECURSIVE NDivModAt(_, _, _, _, _)
NDivModAt(a, b, i, r, q) ==
    IF i = 0 THEN <<NNorm(q), r>>
    ELSE LET digit(cur) ==
                 LET put(d) == NDivModAt(a, b, i - 1, NSub(cur, NMulSmall(b, d)),
                                         <<d>> \o q)
                 IN  put(NQuotDigit(cur, b))
         IN  digit(NNorm(<<a[i]>> \o r))

\* <<quotient, remainder>> of a by b > 0: both are scaled by a power of 2
\* that brings the leading limb of b to its top bit, which keeps the
\* estimate of every digit within 2 of the digit
NDivMod(a, b) ==
    IF NCmp(a, b) < 0 THEN <<<<>>, a>>
    ELSE LET unscale(qr, scale) == <<qr[1], NDivSmall(qr[2], scale)>>
             scaled(scale) ==
                 unscale(NDivModAt(NMulSmall(a, scale), NMulSmall(b, scale),
                                   Len(NMulSmall(a, scale)), <<>>, <<>>), scale)
         IN  scaled(2^(LimbBits - BitLen(b[Len(b)])))

(***************************************************************************)
(* Signed integers and the GMP operations the program calls.               *)
(***************************************************************************)
Z(neg, mag) == [neg |-> neg /\ mag # <<>>, mag |-> mag]

mpz_set_si(k) == Z(k < 0, NFromNat(IF k < 0 THEN -k ELSE k))

mpz_get_si(z) == IF z.neg THEN -NToNat(z.mag) ELSE NToNat(z.mag)

mpz_neg(z) == Z(~z.neg, z.mag)

mpz_cmp(a, b) ==
    IF a.neg /\ ~b.neg THEN -1
    ELSE IF ~a.neg /\ b.neg THEN 1
    ELSE IF a.neg THEN NCmp(b.mag, a.mag)
    ELSE NCmp(a.mag, b.mag)

mpz_cmp_ui(a, k) == mpz_cmp(a, mpz_set_si(k))

mpz_add(a, b) ==
    IF a.neg = b.neg THEN Z(a.neg, NAdd(a.mag, b.mag))
    ELSE IF NCmp(a.mag, b.mag) >= 0 THEN Z(a.neg, NSub(a.mag, b.mag))
    ELSE Z(b.neg, NSub(b.mag, a.mag))

mpz_sub(a, b) == mpz_add(a, mpz_neg(b))

mpz_add_ui(a, k) == mpz_add(a, mpz_set_si(k))

mpz_sub_ui(a, k) == mpz_add(a, mpz_set_si(-k))

mpz_mul(a, b) == Z(a.neg # b.neg, NMul(a.mag, b.mag))

\* floor division (d # 0)
mpz_fdiv_q(n, d) ==
    LET floor(qr) ==
            IF n.neg = d.neg THEN Z(FALSE, qr[1])
            ELSE IF qr[2] = <<>> THEN Z(TRUE, qr[1])
            ELSE Z(TRUE, NAdd(qr[1], <<1>>))
    IN  floor(NDivMod(n.mag, d.mag))

\* the remainder is never negative and the sign of the divisor is ignored
mpz_mod(n, d) ==
    LET lift(r) == IF ~n.neg \/ r = <<>> THEN Z(FALSE, r) ELSE Z(FALSE, NSub(d.mag, r))
    IN  lift(NDivMod(n.mag, d.mag)[2])

mpz_divexact(n, d) == Z(n.neg # d.neg, NDivMod(n.mag, d.mag)[1])

mpz_even_p(z) == z.mag = <<>> \/ z.mag[1] % 2 = 0

mpz_odd_p(z) == ~mpz_even_p(z)

\* the number of binary digits of |z|; 1 for zero
mpz_sizeinbase2(z) == IF z.mag = <<>> THEN 1 ELSE NBitLen(z.mag)

\* n divided by 2^b, rounded down
mpz_fdiv_q_2exp(n, b) == mpz_fdiv_q(n, mpz_set_si(2^b))

(***************************************************************************)
(* The random state: every draw is a free choice of the generator.  A      *)
(* request over a range of more than MaxDraw values is answered from its   *)
(* MaxDraw smallest values.                                                *)
(***************************************************************************)
MaxDraw == 16

\* mpz_urandomm(rop, state, n): a value in 0 .. |n| - 1 (GMP reads the size
\* of n without its sign; n = 0 is a division by zero and is not drawn from)
mpz_urandomm(n) ==
    IF NCmp(n.mag, NFromNat(MaxDraw)) >= 0
    THEN {mpz_set_si(x) : x \in 0..(MaxDraw - 1)}
    ELSE {mpz_set_si(x) : x \in 0..(NToNat(n.mag) - 1)}

\* mpz_urandomb(rop, state, bit_size): a value in 0 .. 2^bit_size - 1
mpz_urandomb(bit_size) ==
    IF bit_size >= BitLen(MaxDraw)
    THEN {mpz_set_si(x) : x \in 0..(MaxDraw - 1)}
    ELSE {mpz_set_si(x) : x \in 0..(2^bit_size - 1)}

(***************************************************************************)
(* numtheory.c                                                             *)
(***************************************************************************)
\* one turn of the Euclidean loop of gcd on its two variables; none once
\* current_num2 has reached 0
gcd_turn(v) ==
    IF mpz_cmp_ui(v.current_num2, 0) # 0
    THEN [current_num1 |-> v.current_num2,
          current_num2 |-> mpz_mod(v.current_num1, v.current_num2)]
    ELSE v

\* the loop, four turns at a time
RECURSIVE gcd_loop(_)
gcd_loop(v) ==
    IF mpz_cmp_ui(v.current_num2, 0) # 0
    THEN gcd_loop(gcd_turn(gcd_turn(gcd_turn(gcd_turn(v)))))
    ELSE v.current_num1

gcd(num1, num2) == gcd_loop([current_num1 |-> num1, current_num2 |-> num2])

\* one turn of the extended Euclidean loop of mod_inverse on its four
\* variables; none once cur_value has reached 0
mod_inverse_turn(v) ==
    IF mpz_cmp_ui(v.cur_value, 0) # 0
    THEN LET turn(q) ==
                 [cur_modulus  |-> v.cur_value,
                  cur_value    |-> mpz_sub(v.cur_modulus, mpz_mul(q, v.cur_value)),
                  coef_modulus |-> v.coef_value,
                  coef_value   |-> mpz_sub(v.coef_modulus, mpz_mul(q, v.coef_value))]
         IN  turn(mpz_fdiv_q(v.cur_modulus, v.cur_value))
    ELSE v

\* the loop, four turns at a time: the variables when cur_value reaches 0
RECURSIVE mod_inverse_loop(_)
mod_inverse_loop(v) ==
    IF mpz_cmp_ui(v.cur_value, 0) # 0
    THEN mod_inverse_loop(
             mod_inverse_turn(mod_inverse_turn(mod_inverse_turn(mod_inverse_turn(v)))))
    ELSE v

mod_inverse(value, modulus) ==
    LET after(v) ==
            IF mpz_cmp_ui(v.cur_modulus, 1) > 0 THEN mpz_set_si(0)
            ELSE IF mpz_cmp_ui(v.coef_modulus, 0) < 0
                 THEN mpz_add(v.coef_modulus, modulus)
            ELSE v.coef_modulus
    IN  after(mod_inverse_loop([cur_modulus  |-> modulus,
                                cur_value    |-> value,
                                coef_modulus |-> mpz_set_si(0),
                                coef_value   |-> mpz_set_si(1)]))

\* one turn of the square-and-multiply loop of pow_mod on its three
\* variables; none once current_exponent has reached 0
pow_mod_turn(v, modulus) ==
    IF mpz_cmp_ui(v.current_exponent, 0) > 0
    THEN [current_result   |->
              IF mpz_odd_p(v.current_exponent)
              THEN mpz_mod(mpz_mul(v.current_result, v.current_base), modulus)
              ELSE v.current_result,
          current_base     |->
              mpz_mod(mpz_mul(v.current_base, v.current_base), modulus),
          current_exponent |-> mpz_fdiv_q(v.current_exponent, mpz_set_si(2))]
    ELSE v

\* the loop, four turns at a time: the value of current_result when
\* current_exponent reaches 0
RECURSIVE pow_mod_loop(_, _)
pow_mod_loop(v, modulus) ==
    IF mpz_cmp_ui(v.current_exponent, 0) > 0
    THEN pow_mod_loop(
             pow_mod_turn(pow_mod_turn(pow_mod_turn(pow_mod_turn(v,
                 modulus), modulus), modulus), modulus),
             modulus)
    ELSE v.current_result

pow_mod(base, exponent, modulus) ==
    pow_mod_loop([current_result   |-> mpz_set_si(1),
                  current_base     |-> base,
                  current_exponent |-> exponent], modulus)

\* is_prime: one turn of the loop that finds number - 1 = 2^s * r with r
\* odd; none once r is odd
is_prime_split_turn(number_minus_one, v) ==
    IF mpz_odd_p(v.r) THEN v
    ELSE [s |-> v.s + 1, r |-> mpz_fdiv_q_2exp(number_minus_one, v.s + 1)]

\* the loop, four turns at a time: s and r as it leaves them
RECURSIVE is_prime_split_loop(_, _)
is_prime_split_loop(number_minus_one, v) ==
    IF mpz_odd_p(v.r) THEN v
    ELSE is_prime_split_loop(number_minus_one,
             is_prime_split_turn(number_minus_one,
             is_prime_split_turn(number_minus_one,
             is_prime_split_turn(number_minus_one,
             is_prime_split_turn(number_minus_one, v)))))

is_prime_split(number_minus_one) ==
    is_prime_split_loop(number_minus_one,
                        [s |-> 1, r |-> mpz_fdiv_q_2exp(number_minus_one, 1)])

\* a squaring loop that stops one turn early, at j <= s - 2
is_prime_squaring_short(v, s, number_minus_one) ==
    /\ ~v.composite
    /\ v.j <= s - 2
    /\ mpz_cmp(v.witness, number_minus_one) # 0

\* is_prime: whether the squaring loop of a round goes on
is_prime_squaring(v, s, number_minus_one) ==
    /\ ~v.composite
    /\ v.j <= s - 1
    /\ mpz_cmp(v.witness, number_minus_one) # 0

\* one turn of the squaring loop on witness and j; composite when the turn
\* returns false from is_prime
is_prime_squarings_turn(v, s, number, number_minus_one) ==
    IF is_prime_squaring(v, s, number_minus_one)
    THEN LET test(squared) ==
                 [witness |-> squared, j |-> v.j + 1,
                  composite |-> mpz_cmp_ui(squared, 1) = 0]
         IN  test(pow_mod(v.witness, mpz_set_si(2), number))
    ELSE v

\* the squaring loop, four turns at a time, and the test after it: FALSE
\* when the round reports the number composite
RECURSIVE is_prime_squarings(_, _, _, _)
is_prime_squarings(v, s, number, number_minus_one) ==
    IF is_prime_squaring(v, s, number_minus_one)
    THEN is_prime_squarings(
             is_prime_squarings_turn(
             is_prime_squarings_turn(
             is_prime_squarings_turn(
             is_prime_squarings_turn(v, s, number, number_minus_one),
                 s, number, number_minus_one),
                 s, number, number_minus_one),
                 s, number, number_minus_one),
             s, number, number_minus_one)
    ELSE ~v.composite /\ mpz_cmp(v.witness, number_minus_one) = 0

\* is_prime: the body of the for loop for one base; FALSE when it returns
\* false from is_prime
is_prime_base(number, s, r, base) ==
    LET test(witness, number_minus_one) ==
            IF mpz_cmp_ui(witness, 1) = 0 \/ mpz_cmp(witness, number_minus_one) = 0
            THEN TRUE
            ELSE is_prime_squarings([witness |-> witness, j |-> 1,
                                     composite |-> FALSE],
                                    s, number, number_minus_one)
    IN  test(pow_mod(base, r, number), mpz_sub_ui(number, 1))

\* a round that forgets mpz_add_ui(base, base, 2) and tests the value drawn
is_prime_round_unshifted(number, s, r, drawn) == is_prime_base(number, s, r, drawn)

\* is_prime: one Miller-Rabin round with the value drawn for base
is_prime_round(number, s, r, drawn) ==
    is_prime_base(number, s, r, mpz_add_ui(drawn, 2))

\* is_prime: rounds i .. iterations - 1, where the outcome of a round
\* depends on its draw alone: passes when some draw lets a round pass, fails
\* when some draw makes it report composite.  The set of values the function
\* can return over the draws of the random state.
RECURSIVE is_prime_rounds(_, _, _, _)
is_prime_rounds(passes, fails, i, iterations) ==
    IF i < iterations
    THEN (IF fails THEN {FALSE} ELSE {})
             \cup (IF passes THEN is_prime_rounds(passes, fails, i + 1, iterations)
                   ELSE {})
    ELSE {TRUE}

is_prime(number, iterations) ==
    IF mpz_cmp_ui(number, 1) = 0 THEN {FALSE}
    ELSE IF mpz_cmp_ui(number, 2) = 0 THEN {TRUE}
    ELSE IF mpz_even_p(number) THEN {FALSE}
    ELSE LET rounds(draws, passing) ==
                 is_prime_rounds(passing # {}, passing # draws, 0, iterations)
             bases(sr, draws) ==
                 rounds(draws, {drawn \in draws :
                                    is_prime_round(number, sr.s, sr.r, drawn)})
         IN  bases(is_prime_split(mpz_sub_ui(number, 1)),
                   mpz_urandomm(mpz_sub_ui(number, 4)))

\* make_prime: the values the draw loop can end with.  The loop starts from
\* 0, which is_prime rejects, and leaves with the first candidate that
\* is_prime accepts.
make_prime(bit_size, iterations) ==
    LET lower_bound == mpz_set_si(2^(bit_size - 1))
    IN  {prime \in {mpz_add(drawn, lower_bound) : drawn \in mpz_urandomb(bit_size)} :
            TRUE \in is_prime(prime, iterations)}

(***************************************************************************)
(* GMP conversions used by ss.c                                            *)
(***************************************************************************)
\* mpz_powm(rop, base, exp, mod) for exp >= 0: base^exp modulo |mod|
mpz_powm(base, exp, mod) == mpz_mod(pow_mod(mpz_mod(base, mod), exp, mod), mod)

\* mpz_import(rop, count, 1, 1, 1, 0, bytes): big-endian bytes to integer
RECURSIVE mpz_import_at(_, _)
mpz_import_at(bytes, v) ==
    IF v.i > Len(bytes) THEN v.rop
    ELSE mpz_import_at(bytes,
                       [i   |-> v.i + 1,
                        rop |-> mpz_add_ui(mpz_mul(v.rop, mpz_set_si(256)),
                                           bytes[v.i])])

mpz_import(bytes) == mpz_import_at(bytes, [i |-> 1, rop |-> mpz_set_si(0)])

\* the digits of |z| in a small base, most significant first; none for zero
RECURSIVE digits_of(_, _)
digits_of(z, base) ==
    IF z.mag = <<>> THEN <<>>
    ELSE Append(digits_of(mpz_fdiv_q(z, mpz_set_si(base)), base),
                mpz_get_si(mpz_mod(z, mpz_set_si(base))))

\* mpz_export(buf, &count, 1, 1, 1, 0, z): the bytes of |z|, most significant
\* first, as many as |z| needs (count = 0 for zero)
mpz_export(z) == digits_of(Z(FALSE, z.mag), 256)

\* gmp_fprintf("%Zx\n", z) for z >= 0: the hexadecimal digits of z
fprintf_Zx(z) == IF z.mag = <<>> THEN <<0>> ELSE digits_of(z, 16)

\* gmp_fscanf("%Zx\n", z) on a token of hexadecimal digits
RECURSIVE fscanf_Zx_at(_, _)
fscanf_Zx_at(token, v) ==
    IF v.i > Len(token) THEN v.rop
    ELSE fscanf_Zx_at(token,
                      [i   |-> v.i + 1,
                       rop |-> mpz_add_ui(mpz_mul(v.rop, mpz_set_si(16)),
                                          token[v.i])])

fscanf_Zx(token) == fscanf_Zx_at(token, [i |-> 1, rop |-> mpz_set_si(0)])

\* mpz_sqrt(rop, op): the integer part of the square root of op >= 0, built
\* bit by bit from the top
mpz_sqrt_bit(op, v) ==
    IF v.bit < 0 THEN v
    ELSE LET try(cand) ==
                 IF mpz_cmp(mpz_mul(cand, cand), op) <= 0
                 THEN [bit |-> v.bit - 1, root |-> cand]
                 ELSE [bit |-> v.bit - 1, root |-> v.root]
         IN  try(mpz_add(v.root, Z(FALSE, NShift(<<2^(v.bit % LimbBits)>>,
                                                v.bit \div LimbBits))))

RECURSIVE mpz_sqrt_at(_, _)
mpz_sqrt_at(op, v) ==
    IF v.bit < 0 THEN v.root
    ELSE mpz_sqrt_at(op, mpz_sqrt_bit(op, mpz_sqrt_bit(op, mpz_sqrt_bit(op,
                             mpz_sqrt_bit(op, v)))))

mpz_sqrt(op) ==
    mpz_sqrt_at(op, [bit |-> mpz_sizeinbase2(op) \div 2, root |-> mpz_set_si(0)])

(***************************************************************************)
(* ss.c                                                                    *)
(***************************************************************************)
\* one turn of the halving loop of ss_encrypt_file and ss_decrypt_file;
\* none once the value has reached 0
halving(v) ==
    IF mpz_cmp_ui(v.value, 0) # 0
    THEN [value |-> mpz_fdiv_q(v.value, mpz_set_si(2)),
          block_size |-> v.block_size + 1]
    ELSE v

\* the loop, four turns at a time: block_size as it leaves it, before the
\* reduction to uint16_t
RECURSIVE halvings_loop(_)
halvings_loop(v) ==
    IF mpz_cmp_ui(v.value, 0) # 0
    THEN halvings_loop(halving(halving(halving(halving(v)))))
    ELSE v.block_size

halvings(value) == halvings_loop([value |-> value, block_size |-> 0])

\* block_size--; block_size /= 8 on a uint16_t
uint16_block_size(count) == (((count % 65536) + 65535) % 65536) \div 8

encrypt_block_size(modulus_n) == uint16_block_size(halvings(mpz_sqrt(modulus_n)))

decrypt_block_size(modulus_pq) == uint16_block_size(halvings(modulus_pq))

ss_encrypt(plaintext, modulus_n) == mpz_powm(plaintext, modulus_n, modulus_n)

ss_decrypt(ciphertext, private_key_d, modulus_pq) ==
    mpz_powm(ciphertext, private_key_d, modulus_pq)

Min(a, b) == IF a < b THEN a ELSE b

\* the read loop of ss_encrypt_file for block_size >= 1: the tokens written
RECURSIVE encrypt_blocks(_, _, _)
encrypt_blocks(data, block_size, modulus_n) ==
    LET bytes_read == Min(block_size - 1, Len(data))
    IN  IF bytes_read = 0 THEN <<>>
        ELSE LET plaintext_block ==
                     <<255>> \o SubSeq(data, 1, bytes_read)
                             \o [k \in 1..(block_size - 1 - bytes_read) |-> 0]
                 ciphertext == ss_encrypt(mpz_import(plaintext_block), modulus_n)
             IN  <<fprintf_Zx(ciphertext)>>
                     \o encrypt_blocks(SubSeq(data, bytes_read + 1, Len(data)),
                                       block_size, modulus_n)

\* one turn of the loop of ss_decrypt_file: the bytes mpz_export produces
decrypt_export(token, private_key_d, modulus_pq) ==
    mpz_export(ss_decrypt(fscanf_Zx(token), private_key_d, modulus_pq))

\* the loop of ss_decrypt_file over the tokens of the input: the bytes
\* written, or "undefined" when a turn leaves defined behaviour (mpz_export
\* produces no byte, so that the write length wraps, or more bytes than the
\* block_size allocated)
RECURSIVE decrypt_tokens(_, _, _, _)
decrypt_tokens(tokens, block_size, private_key_d, modulus_pq) ==
    IF tokens = <<>> THEN <<>>
    ELSE LET turn(exported) ==
                 IF Len(exported) = 0 \/ Len(exported) > block_size
                 THEN "undefined"
                 ELSE LET append(later) ==
                              IF later = "undefined" THEN "undefined"
                              ELSE SubSeq(exported, 2, Len(exported)) \o later
                      IN  append(decrypt_tokens(Tail(tokens), block_size,
                                                private_key_d, modulus_pq))
         IN  turn(decrypt_export(Head(tokens), private_key_d, modulus_pq))

(***************************************************************************)
(* The state: the calls of a test of numtheory.c, and one run of keygen    *)
(* followed by encrypt and decrypt on the files of the run.                *)
(***************************************************************************)
VARIABLES
    pc,             \* the step the run is at
    args, ret,      \* the arguments and the result of the last numtheory call
    total_bits, iterations,
    prime_p, prime_q, modulus_n,            \* outputs of ss_make_pub
    modulus_pq, private_key_d,              \* outputs of ss_make_priv
    make_priv_n, lambda,                    \* n and lambda of ss_make_priv
    enc_block_size, dec_block_size,         \* block_size of either file loop
    infile, cipherfile, outfile,
    decfile,        \* the input of a run of ss_decrypt_file on a given file
    stream,         \* what that run has not read yet
    ciphertext      \* its mpz_t ciphertext

vars == <<pc, args, ret, total_bits, iterations, prime_p, prime_q, modulus_n,
          modulus_pq, private_key_d, make_priv_n, lambda, enc_block_size, dec_block_size,
          infile, cipherfile, outfile, decfile, stream, ciphertext>>

keyvars == <<total_bits, iterations, prime_p, prime_q, modulus_n,
             modulus_pq, private_key_d, make_priv_n, lambda>>

streamvars == <<decfile, stream, ciphertext>>

filevars == <<enc_block_size, dec_block_size, infile, cipherfile, outfile,
              streamvars>>

zero == mpz_set_si(0)

Init ==
    /\ pc = "idle"
    /\ args = <<>>
    /\ ret = 0
    /\ total_bits = 0
    /\ iterations = 0
    /\ prime_p = zero
    /\ prime_q = zero
    /\ modulus_n = zero
    /\ modulus_pq = zero
    /\ private_key_d = zero
    /\ make_priv_n = zero
    /\ lambda = zero
    /\ enc_block_size = 0
    /\ dec_block_size = 0
    /\ infile = <<>>
    /\ cipherfile = <<>>
    /\ outfile = <<>>
    /\ decfile = <<>>
    /\ stream = <<>>
    /\ ciphertext = zero

(***************************************************************************)
(* Calls of numtheory.c                                                    *)
(***************************************************************************)
MaxArg == 6

MaxNumber == 20

MaxIter == 2

CallGcd(num1, num2) ==
    /\ pc = "idle"
    /\ pc' = "gcd"
    /\ args' = <<num1, num2>>
    /\ ret' = mpz_get_si(gcd(mpz_set_si(num1), mpz_set_si(num2)))
    /\ UNCHANGED <<keyvars, filevars>>

CallModInverse(value, modulus) ==
    /\ pc = "idle"
    /\ pc' = "mod_inverse"
    /\ args' = <<value, modulus>>
    /\ ret' = mpz_get_si(mod_inverse(mpz_set_si(value), mpz_set_si(modulus)))
    /\ UNCHANGED <<keyvars, filevars>>

CallPowMod(base, exponent, modulus) ==
    /\ pc = "idle"
    /\ pc' = "pow_mod"
    /\ args' = <<base, exponent, modulus>>
    /\ ret' = mpz_get_si(pow_mod(mpz_set_si(base), mpz_set_si(exponent),
                                 mpz_set_si(modulus)))
    /\ UNCHANGED <<keyvars, filevars>>

CallIsPrime(number, iters) ==
    /\ pc = "idle"
    /\ pc' = "is_prime"
    /\ args' = <<number, iters>>
    /\ ret' \in is_prime(mpz_set_si(number), iters)
    /\ UNCHANGED <<keyvars, filevars>>

\* make_prime, one turn of its draw loop per step: args is <<bit_size,
\* iterations>> and ret is prime, which starts at 0
MaxBitSize == 4

CallMakePrime(bit_size, iters) ==
    /\ pc = "idle"
    /\ pc' = "make_prime_loop"
    /\ args' = <<bit_size, iters>>
    /\ ret' = 0
    /\ UNCHANGED <<keyvars, filevars>>

\* a loop that never draws
make_prime_draws_never(passed) == FALSE

\* while (!is_prime(prime, iterations))
make_prime_draws(passed) == ~passed

\* the test of the loop and, when it fails, the draw of the next candidate:
\* mpz_urandomb(prime, state, bit_size) and mpz_add(prime, prime, lower_bound)
MakePrimeTurn ==
    /\ pc = "make_prime_loop"
    /\ \E passed \in is_prime(mpz_set_si(ret), args[2]) :
           IF make_prime_draws(passed)
           THEN /\ \E drawn \in mpz_urandomb(args[1]) :
                       ret' = mpz_get_si(mpz_add(drawn, mpz_set_si(2^(args[1] - 1))))
                /\ pc' = pc
           ELSE /\ pc' = "make_prime"
                /\ ret' = ret
    /\ UNCHANGED <<args, keyvars, filevars>>

(***************************************************************************)
(* keygen: ss_make_pub, one turn of its loop in two steps, and             *)
(* ss_make_priv                                                            *)
(***************************************************************************)
KeygenStart(bits, iters) ==
    /\ pc = "idle"
    /\ pc' = "make_pub"
    /\ total_bits' = bits
    /\ iterations' = iters
    /\ UNCHANGED <<args, ret, prime_p, prime_q, modulus_n, modulus_pq,
                   private_key_d, make_priv_n, lambda, filevars>>

\* prime_p_bits = rand() % (max_p_bits - min_p_bits + 1) + min_p_bits, and
\* the first make_prime
MakePubDrawP ==
    /\ pc = "make_pub"
    /\ \E prime_p_bits \in (total_bits \div 5)..((2 * total_bits) \div 5) :
           prime_p' \in make_prime(prime_p_bits, iterations)
    /\ pc' = "make_pub_q"
    /\ UNCHANGED <<args, ret, total_bits, iterations, prime_q, modulus_n,
                   modulus_pq, private_key_d, make_priv_n, lambda, filevars>>

\* prime_q_bits = total_bits - squared_p_bits, before its reduction to uint64_t
prime_q_bits == total_bits - mpz_sizeinbase2(mpz_mul(prime_p, prime_p))

\* a test that forgets its second half, (p - 1) mod q
accepted_first_half(p, q) == mpz_cmp_ui(mpz_mod(mpz_sub_ui(q, 1), p), 0) # 0

\* the test that ends the loop of ss_make_pub
accepted(p, q) ==
    /\ mpz_cmp_ui(mpz_mod(mpz_sub_ui(q, 1), p), 0) # 0
    /\ mpz_cmp_ui(mpz_mod(mpz_sub_ui(p, 1), q), 0) # 0

\* the second make_prime and the test: the loop is left with modulus_n set,
\* or starts over.  With prime_q_bits = 0, or wrapped to a value near 2^64,
\* make_prime cannot build its candidate and the process is aborted.
MakePubDrawQ ==
    /\ pc = "make_pub_q"
    /\ IF prime_q_bits < 1
       THEN /\ pc' = "aborted"
            /\ UNCHANGED <<prime_p, prime_q, modulus_n>>
       ELSE \E q \in make_prime(prime_q_bits, iterations) :
                IF accepted(prime_p, q)
                THEN /\ prime_q' = q
                     /\ modulus_n' = mpz_mul(mpz_mul(prime_p, prime_p), q)
                     /\ pc' = "make_priv"
                     /\ UNCHANGED prime_p
                ELSE /\ pc' = "make_pub"
                     /\ UNCHANGED <<prime_p, prime_q, modulus_n>>
    /\ UNCHANGED <<args, ret, total_bits, iterations, modulus_pq,
                   private_key_d, make_priv_n, lambda, filevars>>

\* lambda = (p - 1) * (q - 1) / gcd(p - 1, q - 1)
make_priv_lambda(p_minus1, q_minus1) ==
    mpz_divexact(mpz_mul(p_minus1, q_minus1), gcd(p_minus1, q_minus1))

MakePriv ==
    /\ pc = "make_priv"
    /\ modulus_pq' = mpz_mul(prime_p, prime_q)
    /\ make_priv_n' = mpz_mul(modulus_pq', prime_p)
    /\ lambda' = make_priv_lambda(mpz_sub_ui(prime_p, 1), mpz_sub_ui(prime_q, 1))
    /\ private_key_d' = mod_inverse(make_priv_n', lambda')
    /\ pc' = "keys"
    /\ UNCHANGED <<args, ret, total_bits, iterations, prime_p, prime_q,
                   modulus_n, filevars>>

(***************************************************************************)
(* encrypt and decrypt on the files of the run                             *)
(***************************************************************************)
\* block_size = 0 makes plaintext_block[0] = 0xFF a store into a zero-byte
\* allocation: the behaviour is undefined and no output is modelled for it
EncryptFile(data) ==
    /\ pc = "keys"
    /\ infile' = data
    /\ enc_block_size' = encrypt_block_size(modulus_n)
    /\ IF enc_block_size' = 0
       THEN /\ pc' = "undefined"
            /\ UNCHANGED cipherfile
       ELSE /\ pc' = "encrypted"
            /\ cipherfile' = encrypt_blocks(data, enc_block_size', modulus_n)
    /\ UNCHANGED <<args, ret, keyvars, dec_block_size, outfile, streamvars>>

DecryptFile ==
    /\ pc = "encrypted"
    /\ dec_block_size' = decrypt_block_size(modulus_pq)
    /\ LET wrote(written) ==
               IF written = "undefined"
               THEN /\ pc' = "undefined"
                    /\ UNCHANGED outfile
               ELSE /\ pc' = "decrypted"
                    /\ outfile' = written
       IN  wrote(decrypt_tokens(cipherfile, dec_block_size', private_key_d,
                                modulus_pq))
    /\ UNCHANGED <<args, ret, keyvars, enc_block_size, infile, cipherfile,
                   streamvars>>

(***************************************************************************)
(* ss_decrypt_file on a file that need not be the one ss_encrypt_file      *)
(* wrote, one turn of its loop per step.  The file is a sequence of lines  *)
(* of characters: 0 .. 15 are the hexadecimal digits and NonHex is any     *)
(* other character but white space.                                        *)
(***************************************************************************)
NonHex == 16

\* the number of hexadecimal digits a line starts with
RECURSIVE hex_prefix(_)
hex_prefix(line) ==
    IF line = <<>> \/ Head(line) = NonHex THEN 0 ELSE 1 + hex_prefix(Tail(line))

\* gmp_fscanf(infile, "%Zx\n", ciphertext) on the input left: result -1 at
\* the end of the input, 0 when the input starts with no hexadecimal digit
\* (nothing is read and nothing assigned), 1 when digits were read, which
\* leaves the input after the last of them and the white space behind it
gmp_fscanf_Zx(input) ==
    IF input = <<>>
    THEN [result |-> -1, value |-> zero, rest |-> input]
    ELSE LET read(digits, line) ==
                 IF digits = 0
                 THEN [result |-> 0, value |-> zero, rest |-> input]
                 ELSE [result |-> 1,
                       value  |-> fscanf_Zx(SubSeq(line, 1, digits)),
                       rest   |-> IF digits = Len(line) THEN Tail(input)
                                  ELSE <<SubSeq(line, digits + 1, Len(line))>>
                                           \o Tail(input)]
         IN  read(hex_prefix(Head(input)), Head(input))

\* the function up to its loop: the block size, and ciphertext initialised
DecryptStream(input) ==
    /\ pc = "encrypted"
    /\ pc' = "decrypting"
    /\ decfile' = input
    /\ stream' = input
    /\ ciphertext' = zero
    /\ dec_block_size' = decrypt_block_size(modulus_pq)
    /\ outfile' = <<>>
    /\ UNCHANGED <<args, ret, keyvars, enc_block_size, infile, cipherfile>>

MaxOutput == 4

\* one turn of the loop: it ends the function when gmp_fscanf returns -1,
\* and otherwise decrypts ciphertext, which holds the last value assigned
\* to it, exports and writes.  mpz_export producing no byte (the write
\* length wraps) or more bytes than the block_size allocated leaves defined
\* behaviour.
DecryptTurn ==
    /\ pc = "decrypting"
    /\ Len(outfile) <= MaxOutput
    /\ LET wrote(exported) ==
               IF Len(exported) = 0 \/ Len(exported) > dec_block_size
               THEN /\ pc' = "undefined"
                    /\ UNCHANGED outfile
               ELSE /\ pc' = pc
                    /\ outfile' = outfile \o Tail(exported)
           turn(scanned) ==
               IF scanned.result = -1
               THEN /\ pc' = "decrypted"
                    /\ UNCHANGED <<stream, ciphertext, outfile>>
               ELSE /\ stream' = scanned.rest
                    /\ ciphertext' = IF scanned.result = 1 THEN scanned.value
                                     ELSE ciphertext
                    /\ wrote(mpz_export(ss_decrypt(ciphertext', private_key_d,
                                                   modulus_pq)))
       IN  turn(gmp_fscanf_Zx(stream))
    /\ UNCHANGED <<args, ret, keyvars, enc_block_size, dec_block_size, infile,
                   cipherfile, decfile>>

(***************************************************************************)
(* The specifications                                                      *)
(***************************************************************************)
MinTotalBits == 10

MaxTotalBits == 12

MaxLen == 2

\* the input files: the stretches of up to MaxLen bytes of "HI", a zero byte
\* and "HI" again
Message == <<72, 73, 0, 72, 73>>

Plaintexts ==
    UNION {{SubSeq(Message, from, from + len - 1) :
                from \in 1..(Len(Message) - len + 1)} : len \in 0..MaxLen}

Library ==
    \/ \E num1, num2 \in -MaxArg..MaxArg : CallGcd(num1, num2)
    \/ \E value \in -MaxArg..(2 * MaxArg), modulus \in 2..MaxArg :
           CallModInverse(value, modulus)
    \/ \E base \in -MaxArg..MaxArg, exponent \in 0..MaxArg, modulus \in 1..MaxArg :
           CallPowMod(base, exponent, modulus)
    \/ \E number \in 1..MaxNumber, iters \in 0..MaxIter : CallIsPrime(number, iters)
    \/ \E bit_size \in 1..MaxBitSize, iters \in 0..MaxIter :
           CallMakePrime(bit_size, iters)
    \/ MakePrimeTurn

MakeKeys ==
    \/ MakePubDrawP
    \/ MakePubDrawQ
    \/ MakePriv

\* the calls of numtheory.c and key generation at the smallest sizes
Next ==
    \/ Library
    \/ \E bits \in MinTotalBits..MaxTotalBits, iters \in 1..MaxIter :
           KeygenStart(bits, iters)
    \/ MakeKeys

Spec == Init /\ [][Next]_vars

\* keygen, encrypt and decrypt at sizes where blocks are produced, as
\* <<total_bits, iterations>>
E2ERuns == {<<24, 10>>, <<50, 10>>}

NextE2E ==
    \/ \E run \in E2ERuns : KeygenStart(run[1], run[2])
    \/ MakeKeys
    \/ \E data \in Plaintexts : EncryptFile(data)
    \/ DecryptFile

SpecE2E == Init /\ [][NextE2E]_vars

\* a digit with its lowest bit flipped
FlipDigit(digit) == IF digit % 2 = 0 THEN digit + 1 ELSE digit - 1

\* the files that differ from file in one character of one line, which is a
\* digit flipped or no hexadecimal digit any more
Tampered(file) ==
    UNION {UNION {{[file EXCEPT ![k] = [@ EXCEPT ![place] = char]] :
                       char \in {FlipDigit(file[k][place]), NonHex}} :
                  place \in 1..Len(file[k])} :
           k \in 1..Len(file)}

\* keygen and encrypt, then decrypt on the file written, on a file with one
\* character changed, or on the token 0
TamperRuns == {<<40, 10>>}

TamperPlaintexts == {<<72, 73>>}

NextTamper ==
    \/ \E run \in TamperRuns : KeygenStart(run[1], run[2])
    \/ MakeKeys
    \/ \E data \in TamperPlaintexts : EncryptFile(data)
    \/ \E input \in {cipherfile, <<<<0>>>>} \cup Tampered(cipherfile) :
           DecryptStream(input)
    \/ DecryptTurn

SpecTamper == Init /\ [][NextTamper]_vars

(***************************************************************************)
(* The properties.  They are stated on the machine integers the values     *)
(* stand for, with arithmetic of their own.                                *)
(***************************************************************************)
Abs(k) == IF k < 0 THEN -k ELSE k

RECURSIVE Gcd(_, _)
Gcd(a, b) == IF b = 0 THEN a ELSE Gcd(b, a % b)

Lcm(a, b) == (a * b) \div Gcd(a, b)

Prime(k) == k > 1 /\ \A f \in 2..(k - 1) : f * f > k \/ k % f # 0

RECURSIVE Power(_, _)
Power(base, exponent) == IF exponent = 0 THEN 1 ELSE base * Power(base, exponent - 1)

P == mpz_get_si(prime_p)

Q == mpz_get_si(prime_q)

\* C1: round trip: after ss_encrypt_file and ss_decrypt_file with a generated
\* key pair, a plaintext shorter than block_size - 1 bytes comes back as it
\* was, same bytes and same length.
C1_RoundTrip ==
    pc = "decrypted" /\ Len(infile) < enc_block_size - 1 => outfile = infile

\* C2: with total_bits = 24 and iterations = 10, encrypting "HI" and
\* decrypting the ciphertext stream recovers "HI".
C2_RecoversHI ==
    pc = "decrypted" /\ total_bits = 24 /\ iterations = 10 /\ infile = <<72, 73>>
        => outfile = <<72, 73>>

\* C3: for a generated key pair, the block_size ss_encrypt_file derives from
\* the square root of n equals the one ss_decrypt_file derives from pq.
C3_SameBlockSize ==
    pc = "decrypted" => enc_block_size = dec_block_size

\* C4: the pair ss_make_pub returns consists of two primes that differ.
C4_DistinctPrimes ==
    pc \in {"make_priv", "keys"} => Prime(P) /\ Prime(Q) /\ P # Q

\* C5: the pair (p, q) ss_make_pub returns has (q - 1) mod p # 0 and
\* (p - 1) mod q # 0, and the n that ss_make_priv recomputes as (p * q) * p
\* is the public modulus p * p * q.
C5_KeygenInvariant ==
    /\ pc \in {"make_priv", "keys"} =>
           /\ (Q - 1) % P # 0
           /\ (P - 1) % Q # 0
           /\ mpz_get_si(modulus_n) = P * P * Q
    /\ pc = "keys" =>
           /\ mpz_get_si(modulus_pq) = P * Q
           /\ make_priv_n = modulus_n

\* C5 is met by the run that draws p = 11 and q = 7 for total_bits = 10.
C5_Witness ==
    pc = "keys" /\ total_bits = 10 /\ P = 11 /\ Q = 7 /\ mpz_get_si(make_priv_n) = 847

\* C6: for the pair (p, q) ss_make_pub accepted, p * p * q is coprime to
\* lcm(p - 1, q - 1), mod_inverse does not return 0, and the exponent d has
\* (n * d) mod lambda = 1 and 0 <= d < lambda.
C6_InverseExists ==
    pc = "keys" =>
        LET d == mpz_get_si(private_key_d)
            l == Lcm(P - 1, Q - 1)
        IN  /\ Gcd(P * P * Q, l) = 1
            /\ mpz_get_si(lambda) = l
            /\ d # 0
            /\ d \in 0..(l - 1)
            /\ (P * P * Q * d) % l = 1

\* C7: for n > 1, mod_inverse(a, n) is the x in 0 .. n - 1 with
\* (x * a) mod n = 1 when gcd(a, n) = 1, and 0 otherwise.
C7_ModInverse ==
    pc = "mod_inverse" =>
        IF Gcd(Abs(args[1]), args[2]) = 1
        THEN ret \in 0..(args[2] - 1) /\ (ret * args[1]) % args[2] = 1
        ELSE ret = 0

\* C8: gcd(a, 0) = a, gcd(0, b) = b, gcd(a, a) = a and gcd(a, b) = gcd(b, a)
\* for all integers a and b.
C8_GcdIdentities ==
    pc = "gcd" =>
        /\ args[2] = 0 => ret = args[1]
        /\ args[1] = 0 => ret = args[2]
        /\ args[1] = args[2] => ret = args[1]
        /\ ret = mpz_get_si(gcd(mpz_set_si(args[2]), mpz_set_si(args[1])))

\* C9: pow_mod(base, exponent, modulus) is base^exponent mod modulus for
\* every base, every exponent >= 0 and every modulus >= 1.
C9_PowMod ==
    pc = "pow_mod" => ret = Power(args[1], args[2]) % args[3]

\* C10: whatever the witnesses drawn, is_prime is false for 1, true for 2,
\* false for every even number above 2, and with one iteration true for 3,
\* 5, 7, 11 and false for 4, 6, 8, 9, 15.
C10_FixedCases ==
    pc = "is_prime" =>
        /\ args[1] = 1 => ret = FALSE
        /\ args[1] = 2 => ret = TRUE
        /\ args[1] > 2 /\ args[1] % 2 = 0 => ret = FALSE
        /\ args[2] = 1 /\ args[1] \in {3, 5, 7, 11} => ret = TRUE
        /\ args[2] = 1 /\ args[1] \in {4, 6, 8, 9, 15} => ret = FALSE

\* C10 is met by the call is_prime(15, 1), which answers false.
C10_Witness ==
    pc = "is_prime" /\ args = <<15, 1>> /\ ret = FALSE

\* C11: make_prime leaves its draw loop only with a candidate that is_prime
\* accepted with the given iterations: the value returned is never the
\* initial 0, is_prime can answer true for it, and it is one of the values
\* the function is taken to return where ss_make_pub calls it.
C11_ReturnsAccepted ==
    pc = "make_prime" =>
        /\ ret # 0
        /\ TRUE \in is_prime(mpz_set_si(ret), args[2])
        /\ mpz_set_si(ret) \in make_prime(args[1], args[2])

\* C11: make_prime(3, 1) has drawn candidates and returned 7
C11_Witness ==
    pc = "make_prime" /\ args = <<3, 1>> /\ ret = 7

\* C14: when mod_inverse finds no inverse in ss_make_priv, key generation
\* stops instead of finishing: no run of keygen ends with the private
\* exponent d = 0, the value mod_inverse returns for "no inverse".
C14_NoInverseIsFatal ==
    pc = "keys" => mpz_cmp_ui(private_key_d, 0) # 0

\* C17: the value make_prime(bit_size, iterations) returns has exactly
\* bit_size bits, 2^(bit_size - 1) <= v < 2^bit_size, whatever is drawn.
C17_ExactBitSize ==
    pc = "make_prime" => 2^(args[1] - 1) <= ret /\ ret < 2^args[1]

\* C18: in ss_make_pub the bit size asked of the second make_prime,
\* total_bits - bitlength(p * p), is at least 1 for every total_bits >= 10
\* and every p the first make_prime can return.
C18_QBitsPositive ==
    pc = "make_pub_q" /\ total_bits >= 10 => prime_q_bits >= 1

\* C20: is_prime answers true for every prime number >= 3, for every
\* iteration count and whatever bases are drawn.
C20_NoFalseNegative ==
    pc = "is_prime" /\ args[1] >= 3 /\ Prime(args[1]) => ret = TRUE

\* C20: is_prime(17, 2), where 17 - 1 = 2^4 and rounds square a witness up
\* to three times
C20_Witness ==
    pc = "is_prime" /\ args = <<17, 2>> /\ ret = TRUE

\* C13: for block size B and an input of L bytes ss_encrypt_file writes
\* ceil(L / (B - 1)) tokens, the least count whose blocks of B - 1 bytes
\* cover the input (none for an empty input), and token k is the
\* encryption of the byte 0xFF, the next up to B - 1 bytes of input and
\* zero bytes up to B.
C13_Framing ==
    pc = "encrypted" =>
        LET B == enc_block_size
            L == Len(infile)
            count == Len(cipherfile)
            block(k) == <<255>> \o SubSeq(infile, (k - 1) * (B - 1) + 1,
                                          Min(k * (B - 1), L))
                                \o [z \in 1..(k * (B - 1) - L) |-> 0]
        IN  /\ count * (B - 1) >= L
            /\ count > 0 => (count - 1) * (B - 1) < L
            /\ \A k \in 1..count :
                   cipherfile[k] = fprintf_Zx(ss_encrypt(mpz_import(block(k)),
                                                         modulus_n))

\* C16: every token of the ciphertext contributes exactly block_size - 1
\* bytes to the output of ss_decrypt_file, its block exported on block_size
\* bytes less the first.
C16_OutputWidth ==
    pc = "decrypted" => Len(outfile) = Len(cipherfile) * (dec_block_size - 1)

\* C12: a turn of the loop of ss_decrypt_file whose token fails to parse
\* ends the function and writes nothing: the output stays the plaintext of
\* the tokens decrypted before it.
C12_StopsAtMalformed ==
    [][pc = "decrypting" /\ gmp_fscanf_Zx(stream).result = 0
           => pc' = "decrypted" /\ outfile' = outfile]_vars

\* the file decrypted is the file encrypt wrote with one hexadecimal digit
\* of one token changed into another hexadecimal digit
OneDigitChanged ==
    /\ Len(decfile) = Len(cipherfile)
    /\ \E k \in 1..Len(cipherfile) :
           /\ \A other \in 1..Len(cipherfile) :
                  other # k => decfile[other] = cipherfile[other]
           /\ Len(decfile[k]) = Len(cipherfile[k])
           /\ \E place \in 1..Len(cipherfile[k]) :
                  /\ decfile[k][place] \notin {cipherfile[k][place], NonHex}
                  /\ \A digit \in 1..Len(cipherfile[k]) :
                         digit # place => decfile[k][digit] = cipherfile[k][digit]

\* C15: when one hexadecimal digit of a token encrypt produced is changed,
\* ss_decrypt_file decrypts the file without a failure, and the block the
\* changed token decrypts to differs from the block of the original token.
C15_TamperedDiffers ==
    pc \in {"decrypting", "decrypted", "undefined"} /\ OneDigitChanged =>
        /\ pc # "undefined"
        /\ \A k \in 1..Len(cipherfile) :
               decfile[k] # cipherfile[k] =>
                   decrypt_export(decfile[k], private_key_d, modulus_pq)
                       # decrypt_export(cipherfile[k], private_key_d, modulus_pq)

\* C19: whatever token a turn of ss_decrypt_file reads, mpz_export
\* produces at least 1 byte and at most the block_size bytes allocated for
\* plaintext_block.
C19_ExportFits ==
    pc = "decrypting" /\ gmp_fscanf_Zx(stream).result = 1 =>
        Len(mpz_export(ss_decrypt(gmp_fscanf_Zx(stream).value, private_key_d,
                                  modulus_pq))) \in 1..dec_block_size
====
